---- MODULE Spec2Model ----
(***************************************************************************)
(* Model of the mirajazz protocol engine (src/src/device.rs): the Device   *)
(* connection with its lazy initialize, the command framer, the image      *)
(* staging cache with flush, the page writer and read_input; and of the    *)
(* state reader (src/src/state.rs) that turns the samples read_input       *)
(* returns into Down/Up/Twist updates against its stored snapshots.        *)
(*                                                                         *)
(* Device holds a RefCell<DeviceReaderWriter>, so it is not Sync and every *)
(* operation on one connection runs on one thread: operations interleave   *)
(* only at their .await points.  One action of this model is therefore the *)
(* code of one operation between two suspension points.                    *)
(*                                                                         *)
(* A byte buffer (Vec<u8>) is kept run-length encoded at its tail: the     *)
(* record [data, pad, fill] stands for data followed by pad bytes of value *)
(* fill, which is how write_extended_data and the page writer build it.    *)
(***************************************************************************)
EXTENDS Integers, Sequences, FiniteSets, TLC

\* ------------------------------------------------------------------ bounds
\* Number of concurrently running callers on the one connection.
NumTasks == 2
\* Total number of operations started on the connection.
MaxOps == 2
\* Number of write_image calls.
MaxStaged == 2
\* Longest staged payload, in whole pages, in the paging specification.
MaxPages == 2
\* Number of reads of the state reader.
MaxReads == 3

Tasks == 1..NumTasks

\* ------------------------------------------------------------------ state
VARIABLES
    is_v2,                 \* Device.is_v2
    packet_size,           \* Device.packet_size
    overflow_checks,       \* build profile: arithmetic overflow panics (debug) or wraps (release)
    supports_both_states,  \* Device.supports_both_states
    key_count,             \* Device.key_count
    encoder_count,         \* Device.encoder_count
    initialized,           \* Device.initialized
    reader_writer,         \* RefCell borrow of Device.reader_writer: 0 free, else the borrowing task
    image_cache,           \* contents of Device.image_cache
    cache_lock,            \* tokio Mutex of Device.image_cache: 0 free, else the task holding the guard
    tasks,                 \* each caller's position in the operation it runs, and its locals
    states,                \* DeviceStateReader.states: the stored snapshots buttons, encoders
    log,                   \* history: every raw report write and read handed to the transport
    ops,                   \* history: the operations started so far, each with its result
    reads                  \* history: what each DeviceStateReader::read took in and gave out

vars == <<is_v2, packet_size, overflow_checks, supports_both_states, key_count,
          encoder_count, initialized, reader_writer, image_cache, cache_lock, tasks,
          states, log, ops, reads>>

config == <<is_v2, packet_size, overflow_checks, supports_both_states, key_count,
            encoder_count>>

\* ------------------------------------------------------------------ bytes
Min(a, b) == IF a < b THEN a ELSE b

\* `x as u8`
AsU8(x) == x % 256

\* u8 + u8 in a release build
WrappingAdd(a, b) == (a + b) % 256

\* vec![0u8; n]
Zeros(n) == [i \in 1..n |-> 0]

NoBuf == [data |-> <<>>, pad |-> 0, fill |-> 0]

BufLen(b) == Len(b.data) + b.pad

\* The buffer as the plain byte sequence it stands for.
Expand(b) == b.data \o [i \in 1..b.pad |-> b.fill]

\* Vec::extend(vec![0u8; n]): n zero bytes appended.
Extend(bytes, n) == [data |-> bytes, pad |-> n, fill |-> 0]

\* The common prefix of every command: report id 0x00, "CRT", 0x00 0x00.
CRT == <<0, 67, 82, 84, 0, 0>>

CMD_DIS == CRT \o <<68, 73, 83>>
CMD_LIG_init == CRT \o <<76, 73, 71, 0, 0, 0, 0>>
CMD_LIG(percent) == CRT \o <<76, 73, 71, 0, 0, percent>>
CMD_BAT(len, keybyte) == CRT \o <<66, 65, 84, 0, 0, AsU8(len \div 256), AsU8(len), keybyte>>
CMD_CLE(keybyte) == CRT \o <<67, 76, 69, 0, 0, 0, keybyte>>
CMD_STP == CRT \o <<83, 84, 80>>
CMD_HAN == CRT \o <<72, 65, 78>>
CMD_CONNECT == CRT \o <<67, 79, 78, 78, 69, 67, 84>>
CMD_DC == CRT \o <<67, 76, 69, 0, 0, 68, 67>>

\* Device::connect: packet_size: if is_v2 { 1024 } else { 512 }
connect_packet_size(v2) == IF v2 THEN 1024 ELSE 512

\* A slip in write_extended_data: the report id byte is not counted.
write_extended_data_short(payload) == Extend(payload, packet_size - Len(payload))

\* Device::write_extended_data: payload.extend(vec![0u8; 1 + packet_size - payload.len()])
write_extended_data(payload) == Extend(payload, 1 + packet_size - Len(payload))

\* A slip in set_brightness: the percentage is sent as given.
clamp_percent_missing(percent) == percent

\* percent.clamp(0, 100)
clamp_percent(percent) == IF percent > 100 THEN 100 ELSE IF percent < 0 THEN 0 ELSE percent

\* if key == 0xff { 0xff } else { key + 1 }
clear_key_byte(key) == IF key = 255 THEN 255 ELSE key + 1

\* Device::write_image_data_reports, the sizes it computes first
image_report_length == packet_size + 1
image_report_header_length == 1
\* A slip in the page writer: one byte less of payload per page.
image_report_payload_length_short == packet_size - 1

image_report_payload_length == image_report_length - image_report_header_length

\* One pass of the loop body of write_image_data_reports up to write_data:
\* the page built for page_number with bytes_remaining bytes still to send.
this_length(bytes_remaining) == Min(bytes_remaining, image_report_payload_length)

\* A slip in the page writer: the offset is computed from this page's length.
page_buf_misplaced(image_data, page_number, bytes_remaining) ==
    LET bytes_sent == page_number * this_length(bytes_remaining)
        buf == <<0>> \o SubSeq(image_data, bytes_sent + 1, bytes_sent + this_length(bytes_remaining))
    IN  Extend(buf, image_report_length - Len(buf))

page_buf(image_data, page_number, bytes_remaining) ==
    LET bytes_sent == page_number * image_report_payload_length
        buf == <<0>> \o SubSeq(image_data, bytes_sent + 1, bytes_sent + this_length(bytes_remaining))
    IN  Extend(buf, image_report_length - Len(buf))

\* ------------------------------------------------------------------ callers
\* pc names the .await a caller is suspended in; "idle": no operation running;
\* "done": the operation has just returned or panicked (within a step only).
WritePcs == {"init_dis", "init_lig", "brightness", "clear", "clearall_stp", "sleep",
             "keep_alive", "shutdown_dc", "shutdown_han", "bat", "page", "flush_stp"}

ReadPcs == {"read"}

\* The .await points inside reader_writer.borrow_mut(): the RefMut lives until the
\* awaited report call returns.
TransportPcs == WritePcs \cup ReadPcs

LockPcs == {"flush_lock", "write_image_lock"}

IdleTask ==
    [pc |-> "idle", op |-> "none", id |-> 0, key |-> 0, percent |-> 0, data |-> <<>>,
     timeout |-> FALSE, idx |-> 0, page_number |-> 0, bytes_remaining |-> 0,
     buf |-> NoBuf, src |-> "none", result |-> "none", ret |-> "none"]

\* A fresh call of operation op, numbered id.
Call(op, id, key, percent, data, timeout) ==
    [IdleTask EXCEPT !.pc = "entry", !.op = op, !.id = id, !.key = key,
                     !.percent = percent, !.data = data, !.timeout = timeout]

\* The operation returns res ("ok", "err") to its caller, or it panics
\* ("panic_borrow", "panic_overflow") and unwinds.
Finish(tk, res) ==
    [IdleTask EXCEPT !.pc = "done", !.op = tk.op, !.id = tk.id, !.result = res]

\* The caller suspends in write_data(buf).await at pc, issued by function src.
Writing(tk, pc, src, buf) == [tk EXCEPT !.pc = pc, !.src = src, !.buf = buf]

\* The caller suspends in read_input_report(..).await.
Reading(tk) == [tk EXCEPT !.pc = "read", !.src = "read_input", !.buf = NoBuf]

\* ------------------------------------------------------------------ operations
\* Each operator below is the code of one function from a point where control
\* enters it to the next .await it suspends in (or to its return), as the new
\* value of the caller's record.

\* Device::send_image for cache entry i: key + 1 overflows for key = 255.
send_image(tk, i) ==
    LET image == image_cache[i]
    IN  IF image.key + 1 > 255 /\ overflow_checks
        THEN Finish(tk, "panic_overflow")
        ELSE Writing([tk EXCEPT !.idx = i], "bat", "send_image",
                     write_extended_data(CMD_BAT(Len(image.image_data), WrappingAdd(image.key, 1))))

\* A slip in flush: the commit follows the first entry, the rest is dropped.
flush_next_commit_early(tk) ==
    Writing(tk, "flush_stp", "flush", write_extended_data(CMD_STP))

\* flush, after a send_image returned Ok: the next entry of cache.iter(), or STP.
flush_next(tk) ==
    IF tk.idx < Len(image_cache)
    THEN send_image(tk, tk.idx + 1)
    ELSE Writing(tk, "flush_stp", "flush", write_extended_data(CMD_STP))

\* Device::write_image_data_reports: the head of its while loop.
write_image_data_reports_loop(tk) ==
    IF tk.bytes_remaining > 0
    THEN Writing(tk, "page", "write_image_data_reports",
                 page_buf(image_cache[tk.idx].image_data, tk.page_number, tk.bytes_remaining))
    ELSE flush_next(tk)

\* Device::write_image_data_reports: entry (page_number = 0, bytes_remaining = len).
write_image_data_reports(tk) ==
    write_image_data_reports_loop(
        [tk EXCEPT !.page_number = 0,
                   !.bytes_remaining = Len(image_cache[tk.idx].image_data)])

\* Device::write_image_data_reports: the loop body after write_data returned Ok.
write_image_data_reports_step(tk) ==
    write_image_data_reports_loop(
        [tk EXCEPT !.bytes_remaining = tk.bytes_remaining - this_length(tk.bytes_remaining),
                   !.page_number = tk.page_number + 1])

\* Device::flush after initialize returned Ok.
flush_body(tk) ==
    IF image_cache = <<>> THEN Finish(tk, "ok") ELSE send_image(tk, 1)

\* Device::clear_button_image after its initialize.
clear_button_image_body(tk, key) ==
    Writing(tk, "clear", "clear_button_image", write_extended_data(CMD_CLE(clear_key_byte(key))))

\* Device::set_brightness after its initialize.
set_brightness_body(tk, percent) ==
    Writing(tk, "brightness", "set_brightness", write_extended_data(CMD_LIG(clamp_percent(percent))))

\* Device::clear_all_button_images after clear_button_image(0xFF) returned Ok.
clear_all_button_images_commit(tk) ==
    IF is_v2
    THEN Writing(tk, "clearall_stp", "clear_all_button_images", write_extended_data(CMD_STP))
    ELSE Finish(tk, "ok")

\* A slip in shutdown: it returns after DC.
shutdown_after_dc_returns(tk) == Finish(tk, "ok")

\* Device::shutdown after the DC write returned Ok: the HAN frame.
shutdown_after_dc(tk) ==
    Writing(tk, "shutdown_han", "shutdown", write_extended_data(CMD_HAN))

\* The operation's code after its first initialize().await? returned Ok.  The
\* initialize calls nested below it (reset -> set_brightness -> initialize, ...)
\* find the flag set and return at once.
after_initialize(tk) ==
    CASE tk.op = "set_brightness" -> set_brightness_body(tk, tk.percent)
      [] tk.op = "reset" -> set_brightness_body(tk, 100)
      [] tk.op = "clear_button_image" -> clear_button_image_body(tk, tk.key)
      [] tk.op = "clear_all_button_images" -> clear_button_image_body(tk, 255)
      [] tk.op = "sleep" -> Writing(tk, "sleep", "sleep", write_extended_data(CMD_HAN))
      [] tk.op = "keep_alive" -> Writing(tk, "keep_alive", "keep_alive", write_extended_data(CMD_CONNECT))
      [] tk.op = "shutdown" -> Writing(tk, "shutdown_dc", "shutdown", write_extended_data(CMD_DC))
      [] tk.op = "flush" -> flush_body(tk)
      [] tk.op \in {"read_input", "read"} -> Reading(tk)

\* A slip in initialize: the flag is never honoured.
initialize_never_returns_early(flag) == FALSE

\* A variant of initialize: a handshake whose write failed is sent again by
\* the next caller.
initialize_retried_after_failure(flag) ==
    flag /\ \A i \in 1..Len(log) : ~(log[i].src = "initialize" /\ ~log[i].ok)

\* Device::initialize, line 157: the early return when the flag is set.
initialize_returns_early(flag) == flag

\* Device::initialize from its entry: the flag is loaded and stored with no
\* .await in between, then the DIS frame is written.
initialize(tk) ==
    IF initialize_returns_early(initialized)
    THEN after_initialize(tk)
    ELSE Writing(tk, "init_dis", "initialize", write_extended_data(CMD_DIS))

\* The code that follows a write that returned Ok at tk.pc.
after_write(tk) ==
    CASE tk.pc = "init_dis" -> Writing(tk, "init_lig", "initialize", write_extended_data(CMD_LIG_init))
      [] tk.pc = "init_lig" -> after_initialize(tk)
      [] tk.pc = "brightness" ->
            IF tk.op = "reset" THEN clear_button_image_body(tk, 255) ELSE Finish(tk, "ok")
      [] tk.pc = "clear" ->
            IF tk.op = "clear_button_image" THEN Finish(tk, "ok")
            ELSE clear_all_button_images_commit(tk)
      [] tk.pc = "shutdown_dc" -> shutdown_after_dc(tk)
      [] tk.pc = "bat" -> write_image_data_reports(tk)
      [] tk.pc = "page" -> write_image_data_reports_step(tk)
      [] tk.pc \in {"clearall_stp", "sleep", "keep_alive", "shutdown_han", "flush_stp"} ->
            Finish(tk, "ok")

\* ------------------------------------------------------------------ steps
\* One entry of the transport history: a report write (its buffer, and whether
\* the transport accepted it) or a report read, with the operation (id, op) and
\* the function (src) that issued it.
LogEntry(tk, kind, ok) ==
    [id |-> tk.id, op |-> tk.op, src |-> tk.src, kind |-> kind, buf |-> tk.buf, ok |-> ok]

\* One entry of the operation history.
OpEntry(tk) ==
    [op |-> tk.op, key |-> tk.key, percent |-> tk.percent, data |-> tk.data,
     result |-> "running", ret |-> "none"]

\* Caller t goes on as tk2 (its record at its next suspension or at its return),
\* leaving the cache as cache2, the flag as init2, the cache guard with lock2,
\* the operation history as ops2, the reader's snapshots as states2 and the
\* reader's history as reads2.
\* If tk2 is suspended in a report call, reader_writer.borrow_mut() has run: it
\* panics (BorrowMutError) when another caller's RefMut is alive.  A caller that
\* returns or unwinds drops its cache guard.
Step(t, tk2, cache2, init2, lock2, ops2, states2, reads2) ==
    LET conflict == tk2.pc \in TransportPcs /\ reader_writer \notin {0, t}
        tk3 == IF conflict THEN Finish(tk2, "panic_borrow") ELSE tk2
        done == tk3.pc = "done"
    IN  /\ tasks' = [tasks EXCEPT ![t] = IF done THEN IdleTask ELSE tk3]
        /\ ops' = IF done
                  THEN [ops2 EXCEPT ![tk3.id].result = tk3.result, ![tk3.id].ret = tk3.ret]
                  ELSE ops2
        /\ reader_writer' = IF tk3.pc \in TransportPcs THEN t
                            ELSE IF reader_writer = t THEN 0 ELSE reader_writer
        /\ cache_lock' = IF done /\ lock2 = t THEN 0 ELSE lock2
        /\ image_cache' = cache2
        /\ initialized' = init2
        /\ states' = states2
        /\ reads' = reads2
        /\ UNCHANGED config

\* A step of an operation of Device: the reader is left alone.
Advance(t, tk2, cache2, init2, lock2, ops2) ==
    Step(t, tk2, cache2, init2, lock2, ops2, states, reads)

\* Callers are interchangeable: a new operation runs on the first idle one.
CanStart(t) ==
    /\ tasks[t].pc = "idle"
    /\ \A u \in Tasks : u < t => tasks[u].pc # "idle"

\* An operation that starts with self.initialize().await?
StartInitialized(t, tk0) ==
    /\ CanStart(t)
    /\ log' = log
    /\ Advance(t, initialize(tk0), image_cache, TRUE, cache_lock, Append(ops, OpEntry(tk0)))

set_brightness(t, percent) ==
    StartInitialized(t, Call("set_brightness", Len(ops) + 1, 0, percent, <<>>, FALSE))

reset(t) ==
    StartInitialized(t, Call("reset", Len(ops) + 1, 0, 0, <<>>, FALSE))

clear_button_image(t, key) ==
    StartInitialized(t, Call("clear_button_image", Len(ops) + 1, key, 0, <<>>, FALSE))

clear_all_button_images(t) ==
    StartInitialized(t, Call("clear_all_button_images", Len(ops) + 1, 0, 0, <<>>, FALSE))

sleep(t) ==
    StartInitialized(t, Call("sleep", Len(ops) + 1, 0, 0, <<>>, FALSE))

keep_alive(t) ==
    StartInitialized(t, Call("keep_alive", Len(ops) + 1, 0, 0, <<>>, FALSE))

shutdown(t) ==
    StartInitialized(t, Call("shutdown", Len(ops) + 1, 0, 0, <<>>, FALSE))

read_input(t, timeout) ==
    StartInitialized(t, Call("read_input", Len(ops) + 1, 0, 0, <<>>, timeout))

\* DeviceStateReader::read: it calls device.read_input with its process_input.
read(t, timeout) ==
    StartInitialized(t, Call("read", Len(ops) + 1, 0, 0, <<>>, timeout))

\* A slip in write_image: an earlier entry of the same key is replaced.
push_replacing(cache, cache_entry) ==
    LET OtherKey(e) == e.key # cache_entry.key
    IN  Append(SelectSeq(cache, OtherKey), cache_entry)

\* Vec::push on the locked cache.
push(cache, cache_entry) == Append(cache, cache_entry)

\* Device::write_image once the cache guard is there: push, drop the guard, Ok.
write_image_push(t, tk, ops2) ==
    Advance(t, Finish(tk, "ok"),
            push(image_cache, [key |-> tk.key, image_data |-> tk.data]),
            initialized, cache_lock, ops2)

\* A slip in write_image: the entry is pushed without waiting for the guard.
write_image_unguarded(t, key, image_data) ==
    LET tk0 == Call("write_image", Len(ops) + 1, key, 0, image_data, FALSE)
    IN  /\ CanStart(t)
        /\ log' = log
        /\ write_image_push(t, tk0, Append(ops, OpEntry(tk0)))

\* Device::write_image: image_cache.lock().await, then push.
write_image(t, key, image_data) ==
    LET tk0 == Call("write_image", Len(ops) + 1, key, 0, image_data, FALSE)
        ops2 == Append(ops, OpEntry(tk0))
    IN  /\ CanStart(t)
        /\ log' = log
        /\ IF cache_lock = 0
           THEN write_image_push(t, tk0, ops2)
           ELSE Advance(t, [tk0 EXCEPT !.pc = "write_image_lock"], image_cache,
                        initialized, cache_lock, ops2)

\* A slip in flush: the cache is read without taking its guard.
flush_without_guard(t) ==
    LET tk0 == Call("flush", Len(ops) + 1, 0, 0, <<>>, FALSE)
    IN  /\ CanStart(t)
        /\ log' = log
        /\ Advance(t, initialize(tk0), image_cache, TRUE, cache_lock, Append(ops, OpEntry(tk0)))

\* Device::flush: image_cache.lock().await, then initialize and the body, with
\* the guard held until flush returns.
flush(t) ==
    LET tk0 == Call("flush", Len(ops) + 1, 0, 0, <<>>, FALSE)
        ops2 == Append(ops, OpEntry(tk0))
    IN  /\ CanStart(t)
        /\ log' = log
        /\ IF cache_lock = 0
           THEN Advance(t, initialize(tk0), image_cache, TRUE, t, ops2)
           ELSE Advance(t, [tk0 EXCEPT !.pc = "flush_lock"], image_cache,
                        initialized, cache_lock, ops2)

\* image_cache.lock().await resolves for a caller that had to wait.
lock_acquired(t) ==
    /\ tasks[t].pc \in LockPcs
    /\ cache_lock = 0
    /\ log' = log
    /\ IF tasks[t].pc = "flush_lock"
       THEN Advance(t, initialize(tasks[t]), image_cache, TRUE, t, ops)
       ELSE write_image_push(t, tasks[t], ops)

\* A variant in which the Err of a write is dropped and the operation goes on.
after_write_error_ignored(tk) == after_write(tk)

\* The `?` after a write that returned Err: the operation returns the error.
after_write_error(tk) == Finish(tk, "err")

\* A slip in flush: the cache is cleared before the result of the STP write
\* is looked at.
cache_after_write_before_result(tk, ok) ==
    IF tk.pc = "flush_stp" THEN <<>> ELSE image_cache

\* The staging cache after a write has returned (ok: with Ok): flush runs
\* cache.clear() after the `?` of its STP write; nothing else touches it.
cache_after_write(tk, ok) ==
    IF ok /\ tk.pc = "flush_stp" THEN <<>> ELSE image_cache

\* write_output_report(..).await returns Ok: the transport took the buffer.
write_output_report_ok(t) ==
    LET tk == tasks[t]
    IN  /\ tk.pc \in WritePcs
        /\ log' = Append(log, LogEntry(tk, "write", TRUE))
        /\ Advance(t, after_write(tk), cache_after_write(tk, TRUE),
                   initialized, cache_lock, ops)

\* write_output_report(..).await returns Err: `?` returns it to the caller.
write_output_report_err(t) ==
    LET tk == tasks[t]
    IN  /\ tk.pc \in WritePcs
        /\ log' = Append(log, LogEntry(tk, "write", FALSE))
        /\ Advance(t, after_write_error(tk), cache_after_write(tk, FALSE),
                   initialized, cache_lock, ops)

\* ------------------------------------------------------------------ reader
\* DeviceInput, and the Err a Result<DeviceInput, MirajazzError> can be.
NoData == [type |-> "NoData", v |-> <<>>]
ButtonStateChange(buttons) == [type |-> "ButtonStateChange", v |-> buttons]
EncoderStateChange(encoders) == [type |-> "EncoderStateChange", v |-> encoders]
EncoderTwist(twist) == [type |-> "EncoderTwist", v |-> twist]
Err == [type |-> "Err", v |-> <<>>]

\* DeviceStateUpdate: ButtonDown(u8), ButtonUp(u8), EncoderDown(u8),
\* EncoderUp(u8) (change is 0) and EncoderTwist(u8, i8).
DeviceStateUpdate(kind, index, change) == [kind |-> kind, index |-> index, change |-> change]

\* Device::get_reader: the snapshots start all false.
get_reader(keys, encoders) ==
    [buttons |-> [i \in 1..keys |-> FALSE], encoders |-> [i \in 1..encoders |-> FALSE]]

\* A slip in the diff: a dual-state device is treated as a single-state one.
state_change_at_pulse(index, their, mine, Down, Up) ==
    IF their
    THEN <<DeviceStateUpdate(Down, AsU8(index), 0), DeviceStateUpdate(Up, AsU8(index), 0)>>
    ELSE <<>>

\* input_to_updates, the body of the loop over zip(..).enumerate() for one
\* pair (their, mine) at index (0-based; `index as u8`).
state_change_at(index, their, mine, Down, Up) ==
    IF ~supports_both_states
    THEN IF their
         THEN <<DeviceStateUpdate(Down, AsU8(index), 0), DeviceStateUpdate(Up, AsU8(index), 0)>>
         ELSE <<>>
    ELSE IF their # mine
         THEN IF their
              THEN <<DeviceStateUpdate(Down, AsU8(index), 0)>>
              ELSE <<DeviceStateUpdate(Up, AsU8(index), 0)>>
         ELSE <<>>

\* input_to_updates, the loop over zip(theirs.iter(), mines.iter()).enumerate()
\* from index on: zip ends with the shorter of the two.
RECURSIVE state_change_loop(_, _, _, _, _)
state_change_loop(theirs, mines, index, Down, Up) ==
    IF index >= Min(Len(theirs), Len(mines)) THEN <<>>
    ELSE state_change_at(index, theirs[index + 1], mines[index + 1], Down, Up)
         \o state_change_loop(theirs, mines, index + 1, Down, Up)

\* A slip in the twist path: only the first encoder's delta is reported.
twist_loop_first(twist, index) ==
    IF Len(twist) > 0 /\ twist[1] # 0
    THEN <<DeviceStateUpdate("EncoderTwist", 0, twist[1])>>
    ELSE <<>>

\* input_to_updates, the loop over twist.iter().enumerate() from index on.
RECURSIVE twist_loop(_, _)
twist_loop(twist, index) ==
    IF index >= Len(twist) THEN <<>>
    ELSE (IF twist[index + 1] # 0
          THEN <<DeviceStateUpdate("EncoderTwist", AsU8(index), twist[index + 1])>>
          ELSE <<>>)
         \o twist_loop(twist, index + 1)

\* DeviceStateReader::input_to_updates: the updates it returns.
input_to_updates(my_states, input) ==
    CASE input.type = "ButtonStateChange" ->
            state_change_loop(input.v, my_states.buttons, 0, "ButtonDown", "ButtonUp")
      [] input.type = "EncoderStateChange" ->
            state_change_loop(input.v, my_states.encoders, 0, "EncoderDown", "EncoderUp")
      [] input.type = "EncoderTwist" -> twist_loop(input.v, 0)
      [] OTHER -> <<>>

\* A slip in the snapshot stores: the sample is not stored.
input_to_states_kept(my_states, input) == my_states

\* A slip in the snapshot stores: a sample overwrites both snapshots.
input_to_states_both(my_states, input) ==
    IF input.type \in {"ButtonStateChange", "EncoderStateChange"}
    THEN [buttons |-> input.v, encoders |-> input.v]
    ELSE my_states

\* DeviceStateReader::input_to_updates: the snapshots it leaves behind
\* (my_states.buttons = buttons; my_states.encoders = encoders).
input_to_states(my_states, input) ==
    CASE input.type = "ButtonStateChange" -> [my_states EXCEPT !.buttons = input.v]
      [] input.type = "EncoderStateChange" -> [my_states EXCEPT !.encoders = input.v]
      [] OTHER -> my_states

\* One entry of the reader's history: the read numbered id got result from
\* read_input (invoked: process_input was called for it), found the snapshots
\* before, and returned the list updates (ok) or the error (~ok).
ReadEntry(tk, invoked, result, before, updates, ok) ==
    [id |-> tk.id, invoked |-> invoked, input |-> result, before |-> before,
     updates |-> updates, ok |-> ok]

\* DeviceStateReader::read after read_input(..).await: `?` returns an Err; else
\* input_to_updates runs.  states.lock().await is never contended: the guard is
\* taken and dropped inside input_to_updates, which has no other .await.
read_continue(t, tk, result, invoked) ==
    IF result.type = "Err"
    THEN Step(t, Finish(tk, "err"), image_cache, initialized, cache_lock, ops,
              states, Append(reads, ReadEntry(tk, invoked, result, states, <<>>, FALSE)))
    ELSE Step(t, [Finish(tk, "ok") EXCEPT !.ret = "updates"], image_cache, initialized,
              cache_lock, ops, input_to_states(states, result),
              Append(reads, ReadEntry(tk, invoked, result, states,
                                      input_to_updates(states, result), TRUE)))

\* Device::read_input returns result: to the application that called it, or
\* to DeviceStateReader::read.
read_input_returns(t, tk, result, invoked) ==
    LET res == IF result.type = "Err" THEN "err" ELSE "ok"
        ret == CASE result.type = "Err" -> "none"
                 [] result.type = "NoData" -> "NoData"
                 [] OTHER -> "DeviceInput"
    IN  IF tk.op = "read"
        THEN read_continue(t, tk, result, invoked)
        ELSE Advance(t, [Finish(tk, res) EXCEPT !.ret = ret], image_cache, initialized,
                     cache_lock, ops)

\* A slip in read_input: byte 0 is not looked at.
is_heartbeat_never(b0) == FALSE

\* Device::read_input: if data[0] == 0 { return Ok(DeviceInput::NoData) }
is_heartbeat(b0) == b0 = 0

\* Device::read_data(512): the report read, of which byte 0 is kept; the bytes
\* the classifier looks at are stood for by what the classifier returns.
read_data(b0) == Extend(<<b0>>, 511)

\* Device::read_input after the read: the report's byte 0 is b0; a heartbeat
\* (0) is NoData, anything else goes to the injected classifier process_input,
\* which returns processed: a DeviceInput or an error.
read_input_report(t, b0, processed) ==
    LET tk == tasks[t]
    IN  /\ tk.pc \in ReadPcs
        /\ log' = Append(log, [LogEntry(tk, "read", TRUE) EXCEPT !.buf = read_data(b0)])
        /\ read_input_returns(t, tk, IF is_heartbeat(b0) THEN NoData ELSE processed,
                              ~is_heartbeat(b0))

\* Device::read_data_with_timeout: the timer completes first, size == 0, Ok(None).
read_timeout(t) ==
    LET tk == tasks[t]
    IN  /\ tk.pc \in ReadPcs
        /\ tk.timeout
        /\ log' = Append(log, LogEntry(tk, "timeout", TRUE))
        /\ read_input_returns(t, tk, NoData, FALSE)

\* read_input_report(..).await returns Err.
read_error(t) ==
    LET tk == tasks[t]
    IN  /\ tk.pc \in ReadPcs
        /\ log' = Append(log, LogEntry(tk, "read", FALSE))
        /\ read_input_returns(t, tk, Err, FALSE)

\* ------------------------------------------------------------------ inputs
Percents == {50}
Keys == {0, 255}
SmallPayloads == {<<7, 9>>}

\* Brightness arguments around the clamp at 100, over the range of u8.
BrightnessPercents == {0, 1, 99, 100, 101, 255}

\* Key arguments of clear_button_image: the first key and the last two of u8.
ClearKeys == {0, 254, 255}

\* A payload of length len whose bytes depend on their position.
PatternPayload(len, base) == [i \in 1..len |-> (base + 3 * i) % 251]

\* Payloads of no page, one page and two pages.
FlushPayloads == {<<>>, <<7, 9>>, PatternPayload(packet_size + 1, 5)}

\* Payload lengths around every page boundary up to MaxPages full pages.
PageLengths ==
    {n \in {k * packet_size + d : k \in 0..MaxPages, d \in {-1, 0, 1}} : n >= 0}

PagePayloads == {PatternPayload(n, 11) : n \in PageLengths}

\* All boolean vectors of length n.
BoolSeqs(n) == [1..n -> BOOLEAN]

\* Button samples a classifier may return: every vector of key_count entries,
\* one that is shorter and one that is longer, set in its last entry.
ButtonSamples ==
    BoolSeqs(key_count) \cup {[i \in 1..(key_count - 1) |-> TRUE],
                              [i \in 1..(key_count + 1) |-> i = key_count + 1]}

\* Encoder samples: every vector of encoder_count entries and a longer one.
EncoderSamples ==
    BoolSeqs(encoder_count) \cup {[i \in 1..(encoder_count + 1) |-> i = encoder_count + 1]}

\* Twist deltas: vectors of encoder_count entries and a longer one.
Twists ==
    [1..encoder_count -> {0, -1}] \cup {[i \in 1..(encoder_count + 1) |->
                                           IF i = encoder_count + 1 THEN 3 ELSE 0]}

\* What process_input may return for a report.
ProcessInputResults ==
    {Err, NoData} \cup {ButtonStateChange(v) : v \in ButtonSamples}
                  \cup {EncoderStateChange(v) : v \in EncoderSamples}
                  \cup {EncoderTwist(v) : v \in Twists}

\* ------------------------------------------------------------------ specifications
\* Device::connect for one choice of its arguments, and get_reader.
connect(v2, both_states, keys, encoders) ==
    /\ is_v2 = v2
    /\ supports_both_states = both_states
    /\ key_count = keys
    /\ encoder_count = encoders
    /\ packet_size = connect_packet_size(v2)
    /\ initialized = FALSE
    /\ reader_writer = 0
    /\ image_cache = <<>>
    /\ cache_lock = 0
    /\ tasks = [t \in Tasks |-> IdleTask]
    /\ states = get_reader(keys, encoders)
    /\ log = <<>>
    /\ ops = <<>>
    /\ reads = <<>>

\* A connection of either protocol variant, in either build profile.
Init ==
    /\ overflow_checks \in BOOLEAN
    /\ \E v2 \in BOOLEAN : connect(v2, TRUE, 2, 1)

\* Every operation of the connection, at most MaxOps calls.
Next ==
    \E t \in Tasks :
        \/ Len(ops) < MaxOps /\ \E percent \in Percents : set_brightness(t, percent)
        \/ Len(ops) < MaxOps /\ reset(t)
        \/ Len(ops) < MaxOps /\ \E key \in Keys : clear_button_image(t, key)
        \/ Len(ops) < MaxOps /\ clear_all_button_images(t)
        \/ Len(ops) < MaxOps /\ sleep(t)
        \/ Len(ops) < MaxOps /\ keep_alive(t)
        \/ Len(ops) < MaxOps /\ shutdown(t)
        \/ Len(ops) < MaxOps /\ \E timeout \in BOOLEAN : read_input(t, timeout)
        \/ Len(ops) < MaxOps /\ flush(t)
        \/ Len(ops) < MaxOps /\ \E key \in Keys, image_data \in SmallPayloads :
                                    write_image(t, key, image_data)
        \/ lock_acquired(t)
        \/ write_output_report_ok(t)
        \/ write_output_report_err(t)
        \/ \E b0 \in {0, 1}, processed \in {ButtonStateChange(<<TRUE>>), Err} :
                read_input_report(t, b0, processed)
        \/ read_timeout(t)
        \/ read_error(t)

Spec == Init /\ [][Next]_vars

\* The staging cache: up to MaxStaged write_image calls and a flush, with
\* payloads of zero, one and two pages.
NextFlush ==
    \E t \in Tasks :
        \/ Len(ops) < MaxStaged + 1 /\ \E key \in Keys, image_data \in FlushPayloads :
                                           write_image(t, key, image_data)
        \/ Len(ops) < MaxStaged + 1 /\ flush(t)
        \/ lock_acquired(t)
        \/ write_output_report_ok(t)
        \/ write_output_report_err(t)

SpecFlush == Init /\ [][NextFlush]_vars

\* The operations that write more than one frame, up to MaxStaged + 1 calls.
NextErr ==
    \E t \in Tasks :
        \/ Len(ops) < MaxStaged + 1 /\ \E percent \in Percents : set_brightness(t, percent)
        \/ Len(ops) < MaxStaged + 1 /\ reset(t)
        \/ Len(ops) < MaxStaged + 1 /\ clear_all_button_images(t)
        \/ Len(ops) < MaxStaged + 1 /\ shutdown(t)
        \/ Len(ops) < MaxStaged + 1 /\ flush(t)
        \/ Len(ops) < MaxStaged + 1 /\ \E image_data \in SmallPayloads : write_image(t, 0, image_data)
        \/ lock_acquired(t)
        \/ write_output_report_ok(t)
        \/ write_output_report_err(t)

SpecErr == Init /\ [][NextErr]_vars

\* The single-frame and two-frame commands over the range of their arguments.
NextCommands ==
    \E t \in Tasks :
        \/ Len(ops) < MaxOps /\ \E percent \in BrightnessPercents : set_brightness(t, percent)
        \/ Len(ops) < MaxOps /\ \E key \in ClearKeys : clear_button_image(t, key)
        \/ Len(ops) < MaxOps /\ clear_all_button_images(t)
        \/ Len(ops) < MaxOps /\ shutdown(t)
        \/ write_output_report_ok(t)
        \/ write_output_report_err(t)

SpecCommands == Init /\ [][NextCommands]_vars

\* The two exclusive regions: staging, flush, a command and reads of the
\* reader, up to MaxStaged + 1 calls.
NextLocks ==
    \E t \in Tasks :
        \/ Len(ops) < MaxStaged + 1 /\ \E image_data \in SmallPayloads : write_image(t, 0, image_data)
        \/ Len(ops) < MaxStaged + 1 /\ flush(t)
        \/ Len(ops) < MaxStaged + 1 /\ keep_alive(t)
        \/ Len(ops) < MaxStaged + 1 /\ \E timeout \in BOOLEAN : read(t, timeout)
        \/ lock_acquired(t)
        \/ write_output_report_ok(t)
        \/ write_output_report_err(t)
        \/ \E b0 \in {0, 1}, processed \in {ButtonStateChange(<<TRUE, FALSE>>), Err} :
                read_input_report(t, b0, processed)
        \/ read_timeout(t)
        \/ read_error(t)

SpecLocks == Init /\ [][NextLocks]_vars

\* A v1 connection with its reader, with or without dual-state reporting.
InitReader ==
    /\ overflow_checks = FALSE
    /\ \E both_states \in BOOLEAN : connect(FALSE, both_states, 2, 1)

\* The reader: up to MaxReads calls of read, each with any outcome of the
\* transport and of the classifier.
NextReader ==
    \E t \in Tasks :
        \/ Len(ops) < MaxReads /\ \E timeout \in BOOLEAN : read(t, timeout)
        \/ write_output_report_ok(t)
        \/ write_output_report_err(t)
        \/ \E b0 \in {0, 1}, processed \in ProcessInputResults :
                read_input_report(t, b0, processed)
        \/ read_timeout(t)
        \/ read_error(t)

SpecReader == InitReader /\ [][NextReader]_vars

\* The page writer: one staged payload of a length around a page boundary, and
\* one flush.
NextPage ==
    \E t \in Tasks :
        \/ Len(ops) < 2 /\ image_cache = <<>> /\ \E image_data \in PagePayloads :
                                                     write_image(t, 0, image_data)
        \/ Len(ops) < 2 /\ flush(t)
        \/ lock_acquired(t)
        \/ write_output_report_ok(t)
        \/ write_output_report_err(t)

SpecPage == Init /\ [][NextPage]_vars

\* ------------------------------------------------------------------ history
\* The reports the transport accepted, in order.
IsWritten(e) == e.kind = "write" /\ e.ok

Wire == SelectSeq(log, IsWritten)

IsHandshake(e) == e.src = "initialize"

IsHandshakeWritten(e) == IsHandshake(e) /\ IsWritten(e)

HandshakeFrames == SelectSeq(log, IsHandshakeWritten)

NoWriteFailed == \A i \in 1..Len(log) : log[i].kind = "write" => log[i].ok

Quiescent == \A t \in Tasks : tasks[t].pc = "idle"

\* The two handshake buffers of a connection, as byte sequences.
DIS_frame == CMD_DIS \o Zeros(packet_size + 1 - Len(CMD_DIS))
LIG_zero_frame == CMD_LIG_init \o Zeros(packet_size + 1 - Len(CMD_LIG_init))

\* Both handshake frames are on the wire, DIS first, before log position i.
HandshakeWrittenBefore(i) ==
    \E j, k \in 1..(i - 1) :
        /\ j < k
        /\ IsHandshakeWritten(log[j]) /\ Expand(log[j].buf) = DIS_frame
        /\ IsHandshakeWritten(log[k]) /\ Expand(log[k].buf) = LIG_zero_frame

CallsInitialize(op) == op \notin {"write_image", "none"}

\* ------------------------------------------------------------------ claims

\* C1: for any number of operations that call initialize on one connection,
\* one after another or interleaved, with every transport write succeeding,
\* the transport receives exactly 2 handshake frames, DIS then LIG-zero: never
\* more than these two at any time, and both once the operations have ended.
C1_InitExactlyOnce ==
    NoWriteFailed =>
        /\ Len(HandshakeFrames) <= 2
        /\ Len(HandshakeFrames) >= 1 => Expand(HandshakeFrames[1].buf) = DIS_frame
        /\ Len(HandshakeFrames) >= 2 => Expand(HandshakeFrames[2].buf) = LIG_zero_frame
        /\ (Quiescent /\ \E i \in 1..Len(ops) : CallsInitialize(ops[i].op))
              => Len(HandshakeFrames) = 2

\* C1 witness: two operations that call initialize have both returned Ok, no
\* write failed, and the wire holds the two handshake frames.
C1_Witness ==
    /\ NoWriteFailed
    /\ Quiescent
    /\ Len(ops) >= 2
    /\ \A i \in 1..Len(ops) : CallsInitialize(ops[i].op) /\ ops[i].result = "ok"
    /\ Len(HandshakeFrames) = 2
    /\ Len(Wire) > 2

\* C2 (as claimed): no non-handshake frame is written or in flight, and no raw
\* report is read or awaited, before both handshake frames are on the wire.
C2_InitCompletesFirst ==
    /\ \A i \in 1..Len(log) :
          (~IsHandshake(log[i]) /\ log[i].ok) => HandshakeWrittenBefore(i)
    /\ \A t \in Tasks :
          tasks[t].pc \in TransportPcs \ {"init_dis", "init_lig"}
              => HandshakeWrittenBefore(Len(log) + 1)

\* C3 (as claimed): at most one raw read or write is in progress, and no
\* operation fails or aborts because another one holds the transport.
C3_TransportSerialized ==
    /\ Cardinality({t \in Tasks : tasks[t].pc \in TransportPcs}) <= 1
    /\ \A i \in 1..Len(ops) : ops[i].result # "panic_borrow"

\* What an operation's caller has seen happen in this step.
Returned(id, res) ==
    /\ id \in 1..Len(ops')
    /\ ops'[id].result = res
    /\ (id > Len(ops) \/ ops[id].result = "running")

Ceil(a, b) == (a + b - 1) \div b

\* The frames of the protocol as byte sequences, for one connection.
Padded(bytes) == bytes \o Zeros(packet_size + 1 - Len(bytes))

BAT_frame(len, key) ==
    Padded(<<0, 67, 82, 84, 0, 0, 66, 65, 84, 0, 0, (len \div 256) % 256, len % 256, (key + 1) % 256>>)

STP_frame == Padded(<<0, 67, 82, 84, 0, 0, 83, 84, 80>>)

\* The pages of a payload: a 0x00 header and the next packet_size payload bytes.
ExpectedPages(image_data) ==
    [p \in 1..Ceil(Len(image_data), packet_size) |->
        Padded(<<0>> \o SubSeq(image_data, (p - 1) * packet_size + 1,
                               Min(p * packet_size, Len(image_data))))]

RECURSIVE ExpectedEntries(_)
ExpectedEntries(cache) ==
    IF cache = <<>> THEN <<>>
    ELSE <<BAT_frame(Len(Head(cache).image_data), Head(cache).key)>>
         \o ExpectedPages(Head(cache).image_data)
         \o ExpectedEntries(Tail(cache))

ExpectedFlush(cache) ==
    IF cache = <<>> THEN <<>> ELSE ExpectedEntries(cache) \o <<STP_frame>>

\* C4: a flush that returns Ok has emitted, after the handshake (if it was the
\* one to send it), for the staged entries e1..en in insertion order, nothing
\* deduplicated: nothing when n = 0; else for each entry its BAT frame and all
\* its pages, then one STP frame; and it leaves the staging cache empty.  (BAT
\* carries the length and the key in its 2-byte and 1-byte fields; C10 is about
\* the values of these fields.)
C4_FlushOrdering ==
    [][\A id \in 1..Len(ops') :
          (ops'[id].op = "flush" /\ Returned(id, "ok")) =>
              LET Mine(e) == e.id = id
                  Own(e) == e.id = id /\ ~IsHandshake(e)
                  mine == SelectSeq(log', Mine)
                  own == SelectSeq(log', Own)
              IN  /\ image_cache' = <<>>
                  /\ \A k \in 1..Len(mine) : IsWritten(mine[k])
                  /\ \A j, k \in 1..Len(mine) :
                        (j < k /\ IsHandshake(mine[k])) => IsHandshake(mine[j])
                  /\ [k \in 1..Len(own) |-> Expand(own[k].buf)] = ExpectedFlush(image_cache)
      ]_vars

\* C4 witness: a flush has returned Ok after sending two staged entries of the
\* same key, one of them of two pages, and the cache is empty.
C4_Witness ==
    \E id \in 1..Len(ops) :
        LET Bat(e) == e.id = id /\ e.src = "send_image"
            Page(e) == e.id = id /\ e.src = "write_image_data_reports"
            bats == SelectSeq(log, Bat)
        IN  /\ ops[id].op = "flush" /\ ops[id].result = "ok"
            /\ Len(bats) = 2
            /\ bats[1].buf.data[14] = bats[2].buf.data[14]
            /\ Len(SelectSeq(log, Page)) = 3
            /\ image_cache = <<>>

\* C5: write_image(key, bytes) does no device I/O: whether it has to wait for
\* the cache guard or not, it writes and reads no report and leaves the
\* initialized flag alone, and when it returns it has appended one entry
\* {key, bytes} at the end of the cache, the earlier entries unchanged.
C5_WriteImageStagesOnly ==
    [][\A id \in 1..Len(ops') :
          (ops'[id].op = "write_image" /\ (id > Len(ops) \/ ops[id] # ops'[id])) =>
              /\ log' = log
              /\ initialized' = initialized
              /\ reader_writer' = reader_writer
              /\ IF ops'[id].result = "running"
                 THEN image_cache' = image_cache
                 ELSE /\ ops'[id].result = "ok"
                      /\ image_cache' = image_cache \o
                            <<[key |-> ops'[id].key, image_data |-> ops'[id].data]>>
      ]_vars

\* C5 witness: two write_image calls of the same key are the first operations
\* of a connection: two entries are staged, nothing was written or read, and
\* the connection is still not initialized.
C5_Witness ==
    /\ Len(ops) = 2
    /\ \A i \in 1..Len(ops) : ops[i].op = "write_image" /\ ops[i].result = "ok"
    /\ Len(image_cache) = 2
    /\ image_cache[1].key = image_cache[2].key
    /\ log = <<>>
    /\ ~initialized

\* C6: no operation goes on after a failed transport write: the failed write
\* is the last thing the operation hands to the transport, and the operation
\* has returned the error (so in flush no further entry, page or STP follows,
\* and in shutdown no HAN follows a failed DC).
C6_NoWriteAfterFailure ==
    \A i \in 1..Len(log) :
        (log[i].kind = "write" /\ ~log[i].ok) =>
            /\ \A j \in (i + 1)..Len(log) : log[j].id # log[i].id
            /\ \A t \in Tasks : tasks[t].id # log[i].id
            /\ ops[log[i].id].result = "err"

\* C6 witness: a flush of two staged entries has failed on the page of the
\* first one and returned the error: the second entry and STP were not sent.
C6_Witness ==
    \E i \in 1..Len(log) :
        /\ log[i].src = "write_image_data_reports" /\ ~log[i].ok
        /\ i = Len(log)
        /\ ops[log[i].id].result = "err"
        /\ Len(image_cache) = 2
        /\ Quiescent

\* The page writes of operation id, in the order they were handed over.
PagesOf(id) ==
    LET Page(e) == e.id = id /\ e.src = "write_image_data_reports"
    IN  SelectSeq(log, Page)

\* The content bytes of a page: everything after the 1-byte header.
PageContent(e) == Tail(Expand(e.buf))

RECURSIVE ConcatContent(_)
ConcatContent(pages) ==
    IF pages = <<>> THEN <<>> ELSE PageContent(Head(pages)) \o ConcatContent(Tail(pages))

\* The number of payload bytes a page was built from.
Carried(buf) == Len(buf.data) - 1

\* In the paging specification one payload is staged and flushed: the flush
\* id has found the payload of write_image w in the cache.
Flushes(id, w) ==
    /\ id \in 1..Len(ops) /\ ops[id].op = "flush"
    /\ w \in 1..Len(ops) /\ ops[w].op = "write_image" /\ ops[w].result = "ok"
    /\ \/ \E t \in Tasks : tasks[t].id = id /\ tasks[t].pc \in {"bat", "page", "flush_stp"}
       \/ PagesOf(id) # <<>>
       \/ ops[id].result = "ok" /\ image_cache = <<>>

\* C7: paging round trip.  For a payload of length L and P content bytes per
\* page, a flush that returns Ok has written exactly ceil(L / P) pages, and the
\* content bytes of these pages, concatenated in the order written and cut to
\* L, are the payload; a page is handed to the transport only when all pages
\* before it have been written.
C7_PagingRoundTrip ==
    \A id, w \in 1..Len(ops) :
        Flushes(id, w) =>
            LET image_data == ops[w].data
                pages == PagesOf(id)
            IN  /\ ops[id].result = "ok" =>
                    /\ \A k \in 1..Len(pages) : pages[k].ok
                    /\ Len(pages) = Ceil(Len(image_data), packet_size)
                    /\ SubSeq(ConcatContent(pages), 1, Len(image_data)) = image_data
                /\ \A t \in Tasks :
                      (tasks[t].id = id /\ tasks[t].pc = "page") =>
                          /\ Len(pages) = tasks[t].page_number
                          /\ \A k \in 1..Len(pages) : pages[k].ok

\* C7 witness: a payload of two full pages and one byte has been flushed in
\* three pages.
C7_Witness ==
    \E id, w \in 1..Len(ops) :
        /\ Flushes(id, w)
        /\ ops[id].result = "ok"
        /\ Len(ops[w].data) = 2 * packet_size + 1
        /\ Len(PagesOf(id)) = 3

\* The k-th page of the payload image_data when a page carries per_page bytes.
PageShape(buf, image_data, k, per_page) ==
    /\ buf.data[1] = 0
    /\ Carried(buf) = Min(per_page, Len(image_data) - (k - 1) * per_page)
    /\ SubSeq(buf.data, 2, Len(buf.data))
          = SubSeq(image_data, (k - 1) * per_page + 1, (k - 1) * per_page + Carried(buf))
    /\ buf.pad > 0 => buf.fill = 0

\* Every page written or in flight has the shape of a page of per_page bytes.
PagesShaped(per_page) ==
    \A id, w \in 1..Len(ops) :
        Flushes(id, w) =>
            /\ \A k \in 1..Len(PagesOf(id)) :
                  PageShape(PagesOf(id)[k].buf, ops[w].data, k, per_page)
            /\ \A t \in Tasks :
                  (tasks[t].id = id /\ tasks[t].pc = "page") =>
                      PageShape(tasks[t].buf, ops[w].data, tasks[t].page_number + 1, per_page)

PagesSized(size) ==
    /\ \A i \in 1..Len(log) :
          log[i].src = "write_image_data_reports" => BufLen(log[i].buf) = size
    /\ \A t \in Tasks : tasks[t].pc = "page" => BufLen(tasks[t].buf) = size

\* C8 (as claimed): a page is a 0x00 header and packet_size - 1 content bytes
\* of the payload; only the last page carries fewer and is zero-padded.
C8_PageLayoutClaimed == PagesShaped(packet_size - 1)

\* C8 (amended): a page is a 0x00 header and packet_size content bytes of the
\* payload, packet_size + 1 bytes in all; only the last page carries fewer
\* payload bytes and is zero-padded to packet_size + 1 bytes.
C8_PageLayout ==
    /\ PagesShaped(packet_size)
    /\ PagesSized(packet_size + 1)

\* C8 witness: a payload of one full page and one byte went out as a page
\* without padding and a page of one payload byte padded with zeros.
C8_Witness ==
    \E id, w \in 1..Len(ops) :
        /\ Flushes(id, w)
        /\ ops[id].result = "ok"
        /\ Len(PagesOf(id)) = 2
        /\ PagesOf(id)[1].buf.pad = 0
        /\ Carried(PagesOf(id)[2].buf) = 1
        /\ PagesOf(id)[2].buf.pad = packet_size - 1

FrameSized(buf) ==
    /\ BufLen(buf) = packet_size + 1
    /\ buf.pad > 0 => buf.fill = 0

\* C9: every buffer handed to the transport, by the handshake, a command or
\* the page writer, is packet_size + 1 bytes long, zero after the operation's
\* own content; packet_size is 1024 on a v2 connection and 512 otherwise, and
\* never changes.
C9_FrameSize ==
    /\ [](/\ packet_size = IF is_v2 THEN 1024 ELSE 512
          /\ \A i \in 1..Len(log) : log[i].kind = "write" => FrameSized(log[i].buf)
          /\ \A t \in Tasks : tasks[t].pc \in WritePcs => FrameSized(tasks[t].buf))
    /\ [][packet_size' = packet_size]_vars

\* C9 witness: the handshake, the frames of a flush and a page are on the wire.
C9_Witness ==
    /\ \E i \in 1..Len(log) : log[i].src = "initialize" /\ log[i].ok
    /\ \E i \in 1..Len(log) : log[i].src = "send_image" /\ log[i].ok
    /\ \E i \in 1..Len(log) : log[i].src = "write_image_data_reports" /\ log[i].ok
    /\ \E i \in 1..Len(log) : log[i].src = "flush" /\ log[i].ok

\* C10 (as claimed): the BAT frame flush hands to the transport for a staged
\* image announces the payload length in its 2-byte big-endian field and the
\* key index plus 1 in its key byte.
C10_BatAnnounces ==
    \A t \in Tasks :
        tasks[t].pc = "bat" =>
            LET image == image_cache[tasks[t].idx]
                frame == Expand(tasks[t].buf)
            IN  /\ frame[12] * 256 + frame[13] = Len(image.image_data)
                /\ frame[14] = image.key + 1

\* The log entries of operation id that are not its handshake, in order.
OwnFrames(id) ==
    LET Own(e) == e.id = id /\ ~IsHandshake(e)
    IN  SelectSeq(log, Own)

DC_frame == Padded(<<0, 67, 82, 84, 0, 0, 67, 76, 69, 0, 0, 68, 67>>)
HAN_frame == Padded(<<0, 67, 82, 84, 0, 0, 72, 65, 78>>)

\* C11: a shutdown called on a connection whose initialized flag is set writes
\* no handshake; the frames a shutdown hands to the transport are the DC frame
\* and then the HAN frame and nothing else, HAN only after DC was taken; and a
\* shutdown that returns Ok has written both.
C11_ShutdownFrames ==
    /\ [](\A id \in 1..Len(ops) :
            ops[id].op = "shutdown" =>
                LET own == OwnFrames(id)
                IN  /\ Len(own) <= 2
                    /\ Len(own) >= 1 => Expand(own[1].buf) = DC_frame
                    /\ Len(own) = 2 => own[1].ok /\ Expand(own[2].buf) = HAN_frame
                    /\ ops[id].result = "ok" => Len(own) = 2 /\ own[2].ok
                    /\ \A j, k \in 1..Len(log) :
                          (log[j].id = id /\ log[k].id = id /\ j < k /\ IsHandshake(log[k]))
                              => IsHandshake(log[j]))
    /\ [][\A id \in 1..Len(ops') :
            (id > Len(ops) /\ ops'[id].op = "shutdown" /\ initialized) =>
                \/ ops'[id].result = "panic_borrow"
                \/ \E t \in Tasks :
                      /\ tasks'[t].id = id /\ tasks'[t].pc = "shutdown_dc"
                      /\ Expand(tasks'[t].buf) = DC_frame
       ]_vars

\* C11 witness: a shutdown after another operation has returned Ok; it wrote
\* no handshake frame, and DC and HAN are its two frames on the wire.
C11_Witness ==
    \E id \in 2..Len(ops) :
        /\ ops[id].op = "shutdown" /\ ops[id].result = "ok"
        /\ \A i \in 1..Len(log) : log[i].id = id => ~IsHandshake(log[i])
        /\ Len(OwnFrames(id)) = 2
        /\ \A k \in 1..2 : OwnFrames(id)[k].ok

\* The CLE frames of the log: written by clear_button_image.
IsCLE(e) == e.kind = "write" /\ e.src = "clear_button_image"

\* The key byte of a CLE frame.
CLE_key_byte(e) == e.buf.data[13]

\* C12 (as claimed): clear_all_button_images writes CLE with key byte 0xFF and
\* then STP exactly on a v2 connection; clear_button_image(k) writes CLE with
\* key byte k + 1; and 0xFF is the key byte of a clear-all only.
C12_ClearFrames ==
    /\ \A i \in 1..Len(log) :
          IsCLE(log[i]) =>
              IF log[i].op = "clear_button_image"
              THEN /\ CLE_key_byte(log[i]) = ops[log[i].id].key + 1
                   /\ CLE_key_byte(log[i]) # 255
              ELSE CLE_key_byte(log[i]) = 255
    /\ \A id \in 1..Len(ops) :
          (ops[id].op = "clear_all_button_images" /\ ops[id].result = "ok") =>
              LET own == OwnFrames(id)
              IN  /\ Len(own) = IF is_v2 THEN 2 ELSE 1
                  /\ IsCLE(own[1]) /\ CLE_key_byte(own[1]) = 255
                  /\ is_v2 => Expand(own[2].buf) = STP_frame

LIG_frame(percent) == Padded(<<0, 67, 82, 84, 0, 0, 76, 73, 71, 0, 0, percent>>)

\* C13: the frames set_brightness(p) hands to the transport, its handshake
\* apart, are one LIG frame with brightness byte min(p, 100), which a
\* set_brightness that returns Ok has written; and no LIG frame of any
\* operation carries a brightness above 100.
C13_BrightnessClamped ==
    /\ \A id \in 1..Len(ops) :
          ops[id].op = "set_brightness" =>
              LET own == OwnFrames(id)
              IN  /\ Len(own) <= 1
                  /\ Len(own) = 1 => Expand(own[1].buf) = LIG_frame(Min(ops[id].percent, 100))
                  /\ ops[id].result = "ok" => Len(own) = 1 /\ own[1].ok
    /\ \A i \in 1..Len(log) :
          (log[i].kind = "write" /\ SubSeq(log[i].buf.data, 7, 9) = <<76, 73, 71>>)
              => log[i].buf.data[12] \in 0..100
    /\ \A t \in Tasks :
          tasks[t].pc = "brightness" => Expand(tasks[t].buf) = LIG_frame(Min(tasks[t].percent, 100))

\* C13 witness: set_brightness(255) and set_brightness(99) have returned Ok,
\* with brightness bytes 100 and 99 on the wire.
C13_Witness ==
    \E a, b \in 1..Len(ops) :
        /\ ops[a].op = "set_brightness" /\ ops[a].percent = 255 /\ ops[a].result = "ok"
        /\ ops[b].op = "set_brightness" /\ ops[b].percent = 99 /\ ops[b].result = "ok"
        /\ OwnFrames(a)[1].buf.data[12] = 100
        /\ OwnFrames(b)[1].buf.data[12] = 99

\* ------------------------------------------------------------------ reader claims
\* This step is the end of a DeviceStateReader::read that got a result from
\* read_input; ThisRead is that read's entry, found in the next state.
ReadEnds == Len(reads') = Len(reads) + 1

ThisRead == reads'[Len(reads')]

StateChanges == {"ButtonStateChange", "EncoderStateChange"}

\* The snapshot a sample of the given type is compared with and stored in.
SnapshotOf(st, type) == IF type = "ButtonStateChange" THEN st.buttons ELSE st.encoders

DownOf(type) == IF type = "ButtonStateChange" THEN "ButtonDown" ELSE "EncoderDown"
UpOf(type) == IF type = "ButtonStateChange" THEN "ButtonUp" ELSE "EncoderUp"

\* C14: on a dual-state device, a read that classifies a button (or encoder)
\* sample n of the length of the stored snapshot s returns Down(i) exactly for
\* the i with ~s[i] /\ n[i], Up(i) exactly for the i with s[i] /\ ~n[i], nothing
\* for the i with s[i] = n[i], in ascending order of i, and stores n.
C14_DualStateDiff ==
    [][\A type \in StateChanges :
          (/\ ReadEnds /\ ThisRead.ok /\ ThisRead.input.type = type
           /\ supports_both_states
           /\ Len(ThisRead.input.v) = Len(SnapshotOf(states, type))) =>
              LET n == ThisRead.input.v
                  s == SnapshotOf(states, type)
                  u == ThisRead.updates
              IN  /\ \A k \in 1..Len(u) :
                        /\ u[k].index \in 0..(Len(n) - 1)
                        /\ s[u[k].index + 1] # n[u[k].index + 1]
                        /\ u[k].kind = IF n[u[k].index + 1] THEN DownOf(type) ELSE UpOf(type)
                  /\ \A j, k \in 1..Len(u) : j < k => u[j].index < u[k].index
                  /\ \A i \in 1..Len(n) : s[i] # n[i] => \E k \in 1..Len(u) : u[k].index = i - 1
                  /\ SnapshotOf(states', type) = n
      ]_vars

\* C14 witness: on a dual-state device the snapshot [true, false] met the
\* sample [false, true]: the read returned ButtonUp(0), ButtonDown(1) and the
\* sample is the snapshot now.
C14_Witness ==
    /\ supports_both_states
    /\ Len(reads) >= 2
    /\ LET r == reads[Len(reads)]
       IN  /\ r.ok /\ r.input = ButtonStateChange(<<FALSE, TRUE>>)
           /\ r.before.buttons = <<TRUE, FALSE>>
           /\ r.updates = <<DeviceStateUpdate("ButtonUp", 0, 0), DeviceStateUpdate("ButtonDown", 1, 0)>>
           /\ states.buttons = <<FALSE, TRUE>>

\* Down(i), Up(i) for every i from index on with n[i] set (i counted from 0).
RECURSIVE Pulses(_, _, _)
Pulses(n, index, type) ==
    IF index >= Len(n) THEN <<>>
    ELSE (IF n[index + 1]
          THEN <<[kind |-> DownOf(type), index |-> index, change |-> 0],
                 [kind |-> UpOf(type), index |-> index, change |-> 0]>>
          ELSE <<>>)
         \o Pulses(n, index + 1, type)

\* C15 (as claimed): on a device without dual-state reporting, a read that
\* classifies a button (or encoder) sample n returns Down(i), Up(i) for each i
\* with n[i], in ascending order and whatever the stored snapshot is, and
\* stores n.
C15_SingleStateDiff ==
    [][\A type \in StateChanges :
          (/\ ReadEnds /\ ThisRead.ok /\ ThisRead.input.type = type
           /\ ~supports_both_states) =>
              /\ ThisRead.updates = Pulses(ThisRead.input.v, 0, type)
              /\ SnapshotOf(states', type) = ThisRead.input.v
      ]_vars

\* EncoderTwist(i, d[i]) for every i from index on with d[i] # 0.
RECURSIVE TwistsOf(_, _)
TwistsOf(d, index) ==
    IF index >= Len(d) THEN <<>>
    ELSE (IF d[index + 1] # 0
          THEN <<[kind |-> "EncoderTwist", index |-> index, change |-> d[index + 1]]>>
          ELSE <<>>)
         \o TwistsOf(d, index + 1)

\* C16: a read that classifies an EncoderTwist sample d returns
\* EncoderTwist(i, d[i]) exactly for the i with d[i] # 0, in ascending order of
\* i, and leaves both snapshots as they were.
C16_TwistDiff ==
    [][(ReadEnds /\ ThisRead.ok /\ ThisRead.input.type = "EncoderTwist") =>
          /\ ThisRead.updates = TwistsOf(ThisRead.input.v, 0)
          /\ states' = states
      ]_vars

\* C16 witness: after a button sample changed the snapshot, the twist sample
\* [0, 3] gave EncoderTwist(1, 3) and the snapshots are those of before.
C16_Witness ==
    /\ Len(reads) >= 2
    /\ LET r == reads[Len(reads)]
       IN  /\ r.ok /\ r.input = EncoderTwist(<<0, 3>>)
           /\ r.updates = <<DeviceStateUpdate("EncoderTwist", 1, 3)>>
           /\ r.before = states
           /\ \E i \in 1..Len(states.buttons) : states.buttons[i]

\* The log entry added in this step, if one is (else the last one).
ThisReport == log'[Len(log')]

\* This step ends the wait of a read in DeviceStateReader::read with no
\* report (the timer completed first) or with a heartbeat report (byte 0 is 0).
NoReportOrHeartbeat ==
    /\ Len(log') = Len(log) + 1
    /\ ThisReport.op = "read"
    /\ \/ ThisReport.kind = "timeout"
       \/ ThisReport.kind = "read" /\ ThisReport.ok /\ ThisReport.buf.data[1] = 0

\* C17: a read of the reader in which the timer completes before a report
\* arrives, or in which the report's byte 0 is 0, returns Ok with an empty list
\* of updates, does not call the classifier and leaves both snapshots as they
\* were.
C17_NoDataRead ==
    [][NoReportOrHeartbeat =>
          /\ ReadEnds
          /\ ThisRead.id = ThisReport.id
          /\ ThisRead.ok /\ ThisRead.updates = <<>>
          /\ ~ThisRead.invoked
          /\ ops'[ThisReport.id].result = "ok"
          /\ states' = states
      ]_vars

\* C17 witness: after a button sample changed the snapshot, one read ended by
\* its timer and one by a heartbeat; both returned no updates and the snapshot
\* is still the sample.
C17_Witness ==
    /\ Len(reads) = 3
    /\ reads[1].ok /\ reads[1].input = ButtonStateChange(<<TRUE, TRUE>>)
    /\ \A k \in 2..3 : reads[k].ok /\ reads[k].updates = <<>> /\ ~reads[k].invoked
    /\ \E i \in 1..Len(log) : log[i].id = reads[2].id /\ log[i].kind = "timeout"
    /\ \E i \in 1..Len(log) :
          log[i].id = reads[3].id /\ log[i].kind = "read" /\ log[i].buf.data[1] = 0
    /\ states.buttons = <<TRUE, TRUE>>

\* C18 (as claimed): the stored button snapshot has key_count entries and the
\* stored encoder snapshot encoder_count entries, in every state of a reader.
C18_SnapshotLengths ==
    /\ Len(states.buttons) = key_count
    /\ Len(states.encoders) = encoder_count

\* C19 (as claimed): every update a read returns has an index below key_count
\* (ButtonDown, ButtonUp) or below encoder_count (EncoderDown, EncoderUp,
\* EncoderTwist), and every key held in the staging cache is below key_count.
C19_IndicesInRange ==
    /\ \A r \in 1..Len(reads) : \A k \in 1..Len(reads[r].updates) :
          LET u == reads[r].updates[k]
          IN  IF u.kind \in {"ButtonDown", "ButtonUp"}
              THEN u.index < key_count
              ELSE u.index < encoder_count
    /\ \A i \in 1..Len(image_cache) : image_cache[i].key < key_count

\* C20: the snapshots change only in the step that ends a read with a
\* classified ButtonStateChange or EncoderStateChange sample, and then only
\* the snapshot of that kind; a read that returns an error (from the transport
\* or from the classifier) returns no updates and leaves both snapshots.
C20_SnapshotFrame ==
    [][/\ states' # states =>
             /\ ReadEnds /\ ThisRead.ok /\ ThisRead.input.type \in StateChanges
             /\ ThisRead.input.type = "ButtonStateChange" => states'.encoders = states.encoders
             /\ ThisRead.input.type = "EncoderStateChange" => states'.buttons = states.buttons
       /\ \A id \in 1..Len(ops') :
             (ops'[id].op = "read" /\ Returned(id, "err")) =>
                 /\ states' = states
                 /\ ReadEnds => (~ThisRead.ok /\ ThisRead.updates = <<>>)
       /\ (ReadEnds /\ ThisRead.input = Err) => Returned(ThisRead.id, "err")
      ]_vars

\* C20 witness: a button sample was stored, then one read failed in the
\* transport and one in the classifier; the button snapshot is still the
\* sample and the encoder snapshot is the initial one.
C20_Witness ==
    /\ Len(reads) = 3
    /\ reads[1].ok /\ reads[1].input = ButtonStateChange(<<TRUE, FALSE>>)
    /\ reads[2].input = Err /\ ~reads[2].invoked /\ ~reads[2].ok
    /\ reads[3].input = Err /\ reads[3].invoked /\ ~reads[3].ok
    /\ \A k \in 2..3 : ops[reads[k].id].result = "err"
    /\ states = [buttons |-> <<TRUE, FALSE>>, encoders |-> <<FALSE>>]

\* ------------------------------------------------------------------ regions and failures
\* The transport call a caller is suspended in is one the transport will end.
InTransport(t) == tasks[t].pc \in TransportPcs /\ reader_writer = t

\* Every caller that is in an operation can go on: it is in a transport call,
\* or it waits for the cache guard, which is free or held by a caller that is
\* in a transport call.
CanProceed ==
    \A t \in Tasks :
        tasks[t].pc # "idle" =>
            \/ InTransport(t)
            \/ /\ tasks[t].pc \in LockPcs
               /\ cache_lock = 0 \/ \E u \in Tasks : cache_lock = u /\ InTransport(u)

\* No reader read holds the cache guard (the snapshot guard lives inside
\* input_to_updates of a read only).
SnapshotRegionApart == \A t \in Tasks : cache_lock = t => tasks[t].op # "read"

\* C21 (as claimed): no operation holds the staging-cache guard while it is in
\* (or waits for) the transport, none holds it together with the snapshot
\* guard, and every operation can go on.
C21_RegionsDisjoint ==
    /\ \A t \in Tasks : cache_lock = t => tasks[t].pc \notin TransportPcs
    /\ SnapshotRegionApart
    /\ CanProceed

\* C21 (amended): flush holds the staging-cache guard in every transport call
\* it makes, and only flush holds it across a suspension; no caller waits for
\* the guard while it has the transport, no caller holds the guard together
\* with the snapshot guard, and every operation can go on.
C21_RegionsNested ==
    /\ \A t \in Tasks :
          (tasks[t].op = "flush" /\ tasks[t].pc \in TransportPcs) => cache_lock = t
    /\ \A t \in Tasks :
          cache_lock = t => tasks[t].op = "flush" /\ tasks[t].pc \in WritePcs
    /\ \A t \in Tasks : tasks[t].pc \in LockPcs => reader_writer # t
    /\ SnapshotRegionApart
    /\ CanProceed

\* C21 witness: a flush is in the write of a page, holding the cache guard,
\* while a write_image waits for the guard.
C21_Witness ==
    \E t, u \in Tasks :
        /\ tasks[t].op = "flush" /\ tasks[t].pc = "page" /\ cache_lock = t
        /\ reader_writer = t
        /\ tasks[u].pc = "write_image_lock"

\* The write at log position i is a handshake write the transport refused.
HandshakeFailedAt(i) == IsHandshake(log[i]) /\ log[i].kind = "write" /\ ~log[i].ok

\* C22: once a write of the first initialize has failed (DIS or LIG), the
\* connection stays marked initialized and the operation has returned the
\* error; no handshake frame is handed to the transport afterwards, by any
\* operation, so the only other handshake write there ever is is the DIS that
\* preceded a failed LIG, and the two handshake frames are never both written.
C22_FailedInitSticks ==
    \A i \in 1..Len(log) :
        HandshakeFailedAt(i) =>
            /\ initialized
            /\ ops[log[i].id].result = "err"
            /\ \A j \in 1..Len(log) :
                  (j # i /\ IsHandshake(log[j])) =>
                      j < i /\ log[j].ok /\ log[j].id = log[i].id
            /\ \A t \in Tasks : tasks[t].pc \notin {"init_dis", "init_lig"}
            /\ Len(HandshakeFrames) < 2

\* C22 witness: the DIS write of the first operation failed; a later
\* set_brightness returned Ok with its LIG frame as the only frame on the wire.
C22_Witness ==
    /\ Len(log) >= 2 /\ HandshakeFailedAt(1) /\ Expand(log[1].buf) = DIS_frame
    /\ ops[1].result = "err"
    /\ \E id \in 2..Len(ops) :
          /\ ops[id].op = "set_brightness" /\ ops[id].result = "ok"
          /\ Len(OwnFrames(id)) = 1 /\ OwnFrames(id)[1].ok
    /\ HandshakeFrames = <<>>
    /\ initialized

\* Operation id is a flush that returns res in this step.
FlushReturns(id, res) == ops'[id].op = "flush" /\ Returned(id, res)

\* The frames of operation id after its handshake, as of the next state.
OwnFramesNext(id) ==
    LET Own(e) == e.id = id /\ ~IsHandshake(e)
        own == SelectSeq(log', Own)
    IN  [k \in 1..Len(own) |-> Expand(own[k].buf)]

\* C23: a flush that returns an error leaves the staging cache as it is, and
\* from the moment a flush has the cache guard to its return the cache does not
\* change (but for the clear of a flush that returns Ok), so the cache after a
\* failed flush is the cache it started with, entries already sent included; a
\* flush that returns Ok after a failed one writes the frames of every staged
\* entry, from the first one, in order.
C23_FailedFlushKeepsCache ==
    [][/\ \A id \in 1..Len(ops') : FlushReturns(id, "err") => image_cache' = image_cache
       /\ \A t \in Tasks :
             (tasks[t].op = "flush" /\ cache_lock = t) =>
                 \/ image_cache' = image_cache
                 \/ FlushReturns(tasks[t].id, "ok") /\ image_cache' = <<>>
       /\ \A id \in 1..Len(ops') :
             (/\ FlushReturns(id, "ok")
              /\ \E f \in 1..(id - 1) : ops[f].op = "flush" /\ ops[f].result = "err") =>
                 OwnFramesNext(id) = ExpectedFlush(image_cache)
      ]_vars

\* C23 witness: a flush failed on the page of the staged entry after its BAT
\* frame was written; the next flush returned Ok and wrote BAT, the page and
\* STP again; the cache is empty now.
C23_Witness ==
    \E f, id \in 1..Len(ops) :
        /\ f < id
        /\ ops[f].op = "flush" /\ ops[f].result = "err"
        /\ Len(OwnFrames(f)) = 2 /\ OwnFrames(f)[1].ok /\ ~OwnFrames(f)[2].ok
        /\ OwnFrames(f)[2].src = "write_image_data_reports"
        /\ ops[id].op = "flush" /\ ops[id].result = "ok"
        /\ Len(OwnFrames(id)) = 3
        /\ OwnFrames(id)[1].buf = OwnFrames(f)[1].buf
        /\ image_cache = <<>>

\* Operation id is a write_image that returns Ok in this step.
WriteImageReturns(id) == ops'[id].op = "write_image" /\ Returned(id, "ok")

\* The cache with the entry of write_image id appended.
Staged(id) == Append(image_cache, [key |-> ops'[id].key, image_data |-> ops'[id].data])

\* Every write operation id has handed to the transport was accepted.
AllWrittenNext(id) == \A i \in 1..Len(log') : log'[i].id = id => IsWritten(log'[i])

\* C24: no staged image is lost.  A write_image that returns Ok has appended
\* its entry, and it does so only while no flush has the cache guard: wholly
\* before a flush or wholly after it.  The cache changes in no other way than
\* by such an append or by the clear of a flush that returns Ok, and that
\* flush has written the BAT frame and the pages of every entry it clears.
C24_StagedNeverLost ==
    [][/\ \A id \in 1..Len(ops') :
             WriteImageReturns(id) => (cache_lock = 0 /\ image_cache' = Staged(id))
       /\ image_cache' # image_cache =>
             \/ \E id \in 1..Len(ops') : WriteImageReturns(id)
             \/ \E id \in 1..Len(ops') :
                   /\ FlushReturns(id, "ok")
                   /\ image_cache' = <<>>
                   /\ AllWrittenNext(id)
                   /\ OwnFramesNext(id) = ExpectedFlush(image_cache)
      ]_vars

\* C24 witness: a flush has sent the one staged entry and returned Ok while a
\* write_image was waiting for the guard: the cache is empty and that
\* write_image is still to push its entry.
C24_Witness ==
    \E id \in 1..Len(ops) : \E u \in Tasks :
        /\ ops[id].op = "flush" /\ ops[id].result = "ok"
        /\ Len(OwnFrames(id)) >= 3
        /\ tasks[u].pc = "write_image_lock" /\ tasks[u].id > id
        /\ cache_lock = 0
        /\ image_cache = <<>>

\* The updates of the first n reads, in the order they were returned.
RECURSIVE UpdatesUpTo(_)
UpdatesUpTo(n) == IF n = 0 THEN <<>> ELSE UpdatesUpTo(n - 1) \o reads[n].updates

\* The events of the given kinds for one index, over all reads so far.
EventsOf(kinds, index) ==
    LET Mine(u) == u.kind \in kinds /\ u.index = index
    IN  SelectSeq(UpdatesUpTo(Len(reads)), Mine)

\* The events are Down, Up, Down, Up, ...
Alternates(events, Down, Up) ==
    \A k \in 1..Len(events) : events[k].kind = IF k % 2 = 1 THEN Down ELSE Up

\* Every state-change sample classified so far has the length of its snapshot
\* at construction.
ClassifierKeepsLength ==
    \A r \in 1..Len(reads) :
        /\ reads[r].input.type = "ButtonStateChange" => Len(reads[r].input.v) = key_count
        /\ reads[r].input.type = "EncoderStateChange" => Len(reads[r].input.v) = encoder_count

\* C25: on a dual-state device whose classifier returns button samples of
\* key_count entries and encoder samples of encoder_count entries, the events
\* returned for one button index over all reads are ButtonDown, ButtonUp,
\* ButtonDown, ... starting with ButtonDown, and likewise EncoderDown,
\* EncoderUp for one encoder index.
C25_EventsAlternate ==
    (supports_both_states /\ ClassifierKeepsLength) =>
        /\ \A i \in 0..(key_count - 1) :
              Alternates(EventsOf({"ButtonDown", "ButtonUp"}, i), "ButtonDown", "ButtonUp")
        /\ \A i \in 0..(encoder_count - 1) :
              Alternates(EventsOf({"EncoderDown", "EncoderUp"}, i), "EncoderDown", "EncoderUp")

\* C25 witness: three reads of a dual-state device have returned ButtonDown(0),
\* ButtonUp(0) and ButtonDown(0) again, from samples of key_count entries.
C25_Witness ==
    /\ supports_both_states /\ ClassifierKeepsLength
    /\ Len(reads) = 3
    /\ LET events == EventsOf({"ButtonDown", "ButtonUp"}, 0)
       IN  /\ Len(events) = 3
           /\ events[1].kind = "ButtonDown" /\ events[2].kind = "ButtonUp"
           /\ events[3].kind = "ButtonDown"

====
